---- MODULE Spec2Model ----
(***************************************************************************)
(* Model of de-stash-aws_s3_sync.py: a wrapper that takes a non-blocking   *)
(* exclusive flock on a lock file, runs "aws s3 sync" as a child process,  *)
(* and appends one JSON line per run to a log file.                        *)
(*                                                                         *)
(* Several invocations of the script (separate OS processes) run           *)
(* concurrently against the same lock path and the same log path.  Each    *)
(* invocation walks through main() step by step; the operating system      *)
(* contributes the clock, the flock state of the lock file, the outcome of *)
(* opening files, the child process, and external kills.                   *)
(***************************************************************************)
EXTENDS Integers, Sequences, FiniteSets, TLC

\* ---------------------------------------------------------------- bounds
NumInv == 2            \* number of invocations of the script
MaxTime == 1           \* the clock runs over 0..MaxTime ticks
TicksPerSecond == 2    \* clock ticks per second of the formatted stamps

Inv == 1..NumInv
PIDs == 101..(100 + NumInv)
Times == 0..MaxTime

\* ------------------------------------------------------- program constants
DefaultLog == "/var/log/aws_s3_sync.log"
Source == "/data"
Destination == "remote:/bucket"
SyncOptions == ""

LockErrorText == "Error: Could not acquire lock"

\* exit codes of the child: success, general, permission, other, signal
ExitCodes == {0, 1, 2, 13, -9}

\* captured (stdout, stderr) of the child
Outputs == { [out |-> "upload: a", err |-> ""],
             [out |-> "", err |-> "fatal error"] }

VARIABLES
    now,          \* system wall clock, in ticks
    lock,         \* invocation whose open file description holds the flock, 0 if free
    log,          \* the log file: sequence of entries, in file order
    pc,           \* position of each invocation in main()
    args_o,       \* --o flag
    pid,          \* os.getpid()
    unique_id,    \* line 35
    start_time,   \* line 37
    end_time,     \* line 57
    return_code,  \* lines 52, 55
    sync_output,  \* lines 51, 54
    child,        \* state of the aws child process: "none", "running", "exited"
    stdout,       \* what each invocation printed on standard output
    stderr,       \* what each invocation printed on standard error
    exitKind,     \* how the process ended: "none", "returned", "crashed", "killed"
    gate,         \* outcome of lines 40-45: "none", "passed", "held", "openfail"
    events,       \* history of each invocation's externally visible steps
    logPos        \* index in log of the entry the invocation appended, 0 if none

vars == <<now, lock, log, pc, args_o, pid, unique_id, start_time, end_time,
          return_code, sync_output, child, stdout, stderr, exitKind, gate,
          events, logPos>>

procVars == <<pc, args_o, pid, unique_id, start_time, end_time, return_code,
              sync_output, child, stdout, stderr, exitKind, gate, events, logPos>>

\* ------------------------------------------------------------- helpers

\* substring test on strings
Contains(s, sub) ==
    \E i \in 1..(Len(s) - Len(sub) + 1) : SubSeq(s, i, i + Len(sub) - 1) = sub

IsPrefix(s, t) ==
    /\ Len(s) <= Len(t)
    /\ SubSeq(t, 1, Len(s)) = s

Live(p) == pc[p] \notin {"init", "done"}

\* number of occurrences of e in the history of p
Count(p, e) == Cardinality({i \in DOMAIN events[p] : events[p][i] = e})

\* variant: the id is the timestamp alone
UniqueIdNoPid(t, id) == ToString(t)

\* line 35: f"{int(time.time()*1e6)}-{os.getpid()}"
UniqueId(t, id) == ToString(t) \o "-" \o ToString(id)

\* strftime("%Y-%m-%d %H:%M:%S"): the stamp keeps whole seconds only
Strftime(t) == t \div TicksPerSecond

\* line 58 and line 67: end_time - start_time, at full clock resolution
Duration(s, e) == e - s

\* variant: the flock is granted whether or not somebody holds the lock
FlockShared(p) == TRUE

\* fcntl.flock(lock_file, LOCK_EX | LOCK_NB) succeeds iff nobody holds the lock
FlockNB(p) == lock = 0

\* variant: the lock outlives the process (a lock kept as file existence)
ReleasedLockStale(p) == lock

\* the OS drops a process's flock when the process ends
ReleasedLock(p) == IF lock = p THEN 0 ELSE lock

\* lines 70, 75: status of the log entry
Status(rc) == IF rc = 0 THEN "info" ELSE "error"

\* variant: the permission branch is lost to the general one
MessageNoPermission(rc) ==
    IF rc = 0 THEN "Sync successful."
    ELSE IF rc \in {1, 2} THEN "Sync failed due to a general error, exit code 1"
    ELSE "Sync failed with exit code " \o ToString(rc)

\* lines 71, 76-81: message of the log entry
Message(rc) ==
    IF rc = 0 THEN "Sync successful."
    ELSE IF rc = 1 THEN "Sync failed due to a general error, exit code 1"
    ELSE IF rc = 2 THEN "Sync failed due to a permission error, exit code 2"
    ELSE "Sync failed with exit code " \o ToString(rc)

\* variant: the script exits with the code of the sync command
ExitStatusOfSync(p) ==
    IF exitKind[p] = "returned" THEN 0
    ELSE IF exitKind[p] = "crashed" THEN (IF return_code[p] # 0 THEN return_code[p] ELSE 1)
    ELSE IF exitKind[p] = "killed" THEN -9
    ELSE 0

\* lines 45, 86-87: exit status of the process: 0 when main returns, 1 when
\* an exception is not caught, the negated signal number when it is killed
ExitStatus(p) ==
    IF exitKind[p] = "returned" THEN 0
    ELSE IF exitKind[p] = "crashed" THEN 1
    ELSE IF exitKind[p] = "killed" THEN -9
    ELSE 0

\* lines 51, 54: what is kept of the child's output
SyncOutput(rc, o) == IF rc = 0 THEN o.out ELSE o.out \o "\n" \o o.err

\* lines 60-68
ExtraInfo(p) ==
    [ source |-> Source,
      destination |-> Destination,
      options |-> SyncOptions,
      sync_output |-> sync_output[p],
      start_time |-> Strftime(start_time[p]),
      end_time |-> Strftime(end_time[p]),
      duration |-> Duration(start_time[p], end_time[p]) ]

\* lines 14-20
LogEntry(p) ==
    [ timestamp |-> Strftime(now),
      unique_id |-> unique_id[p],
      status |-> Status(return_code[p]),
      message |-> Message(return_code[p]),
      extra_info |-> ExtraInfo(p) ]

\* variant: the log file is opened with "w"
AppendLogTruncating(entry) == <<entry>>

\* lines 21-22: open(log_file, "a") and one write
AppendLog(entry) == Append(log, entry)

\* line 73
SuccessText == "Well done. Source directory: " \o Source \o ". Details: " \o DefaultLog

\* last line of the traceback Python prints for an uncaught exception
NameErrorText == "NameError: name 'sys' is not defined"
SpawnErrorText == "FileNotFoundError: [Errno 2] No such file or directory: 'aws'"
LogErrorText == "PermissionError: [Errno 13] Permission denied: '" \o DefaultLog \o "'"

\* ------------------------------------------------------------- initial state
Init ==
    /\ now = 0
    /\ lock = 0
    /\ log = <<>>
    /\ pc = [p \in Inv |-> "init"]
    /\ args_o = [p \in Inv |-> FALSE]
    /\ pid = [p \in Inv |-> 0]
    /\ unique_id = [p \in Inv |-> ""]
    /\ start_time = [p \in Inv |-> 0]
    /\ end_time = [p \in Inv |-> 0]
    /\ return_code = [p \in Inv |-> 0]
    /\ sync_output = [p \in Inv |-> ""]
    /\ child = [p \in Inv |-> "none"]
    /\ stdout = [p \in Inv |-> <<>>]
    /\ stderr = [p \in Inv |-> <<>>]
    /\ exitKind = [p \in Inv |-> "none"]
    /\ gate = [p \in Inv |-> "none"]
    /\ events = [p \in Inv |-> <<>>]
    /\ logPos = [p \in Inv |-> 0]

\* ------------------------------------------------------------- actions

\* the wall clock advances
Tick ==
    /\ now < MaxTime
    /\ now' = now + 1
    /\ UNCHANGED <<lock, log, procVars>>

\* the wall clock is set back (clock adjustment, local-time change)
ClockStepBack ==
    /\ \E t \in Times : t < now /\ now' = t
    /\ UNCHANGED <<lock, log, procVars>>

\* lines 25-37: parse the arguments, build the id, take the start time
Start(p) ==
    /\ pc[p] = "init"
    /\ \E o \in BOOLEAN, id \in PIDs :
         /\ \A q \in Inv : Live(q) => pid[q] # id
         /\ args_o' = [args_o EXCEPT ![p] = o]
         /\ pid' = [pid EXCEPT ![p] = id]
         /\ unique_id' = [unique_id EXCEPT ![p] = UniqueId(now, id)]
    /\ start_time' = [start_time EXCEPT ![p] = now]
    /\ pc' = [pc EXCEPT ![p] = "lock"]
    /\ UNCHANGED <<now, lock, log, end_time, return_code, sync_output, child,
                   stdout, stderr, exitKind, gate, events, logPos>>

\* The process ends: main returned, an exception was not caught, or the
\* process was killed.  The OS closes its descriptors, which frees its flock,
\* and its memory (the locals of main) is gone.
ProcessExit(p, kind) ==
    /\ exitKind' = [exitKind EXCEPT ![p] = kind]
    /\ pc' = [pc EXCEPT ![p] = "done"]
    /\ lock' = ReleasedLock(p)
    /\ pid' = [pid EXCEPT ![p] = 0]
    /\ unique_id' = [unique_id EXCEPT ![p] = ""]
    /\ start_time' = [start_time EXCEPT ![p] = 0]
    /\ end_time' = [end_time EXCEPT ![p] = 0]
    /\ sync_output' = [sync_output EXCEPT ![p] = ""]

\* variant: the start time is taken again once the lock is held
AcquireOKRestamp(p) ==
    /\ pc[p] = "lock"
    /\ FlockNB(p)
    /\ lock' = p
    /\ start_time' = [start_time EXCEPT ![p] = now]
    /\ gate' = [gate EXCEPT ![p] = "passed"]
    /\ events' = [events EXCEPT ![p] = Append(@, "lock")]
    /\ pc' = [pc EXCEPT ![p] = "spawn"]
    /\ UNCHANGED <<now, log, args_o, pid, unique_id, end_time,
                   return_code, sync_output, child, stdout, stderr, exitKind, logPos>>

\* lines 40-42: the lock file opens and the flock is granted
AcquireOK(p) ==
    /\ pc[p] = "lock"
    /\ FlockNB(p)
    /\ lock' = p
    /\ gate' = [gate EXCEPT ![p] = "passed"]
    /\ events' = [events EXCEPT ![p] = Append(@, "lock")]
    /\ pc' = [pc EXCEPT ![p] = "spawn"]
    /\ UNCHANGED <<now, log, args_o, pid, unique_id, start_time, end_time,
                   return_code, sync_output, child, stdout, stderr, exitKind, logPos>>

\* variant: the except branch prints but does not return
AcquireHeldNoReturn(p) ==
    /\ pc[p] = "lock"
    /\ ~FlockNB(p)
    /\ gate' = [gate EXCEPT ![p] = "held"]
    /\ stdout' = [stdout EXCEPT ![p] = Append(@, LockErrorText)]
    /\ pc' = [pc EXCEPT ![p] = "spawn"]
    /\ UNCHANGED <<now, lock, log, args_o, pid, unique_id, start_time, end_time,
                   return_code, sync_output, child, stderr, exitKind, events, logPos>>

\* variant: flock without LOCK_NB, the call waits for the holder
AcquireHeldBlocking(p) ==
    /\ pc[p] = "lock"
    /\ ~FlockNB(p)
    /\ UNCHANGED vars

\* lines 42-45: flock raises because the lock is held; print and return
AcquireHeld(p) ==
    /\ pc[p] = "lock"
    /\ ~FlockNB(p)
    /\ gate' = [gate EXCEPT ![p] = "held"]
    /\ stdout' = [stdout EXCEPT ![p] = Append(@, LockErrorText)]
    /\ ProcessExit(p, "returned")
    /\ UNCHANGED <<now, log, args_o, return_code, child, stderr, events, logPos>>

\* lines 41, 43-45: open(args.lock, 'w') raises; print and return
AcquireOpenFail(p) ==
    /\ pc[p] = "lock"
    /\ gate' = [gate EXCEPT ![p] = "openfail"]
    /\ stdout' = [stdout EXCEPT ![p] = Append(@, LockErrorText)]
    /\ ProcessExit(p, "returned")
    /\ UNCHANGED <<now, log, args_o, return_code, child, stderr, events, logPos>>

\* line 50: subprocess.run starts the child and blocks
SpawnOK(p) ==
    /\ pc[p] = "spawn"
    /\ child' = [child EXCEPT ![p] = "running"]
    /\ events' = [events EXCEPT ![p] = Append(@, "spawn")]
    /\ pc' = [pc EXCEPT ![p] = "wait"]
    /\ UNCHANGED <<now, lock, log, args_o, pid, unique_id, start_time, end_time,
                   return_code, sync_output, stdout, stderr, exitKind, gate, logPos>>

\* line 50: the command cannot be started; the exception is not caught
SpawnFail(p) ==
    /\ pc[p] = "spawn"
    /\ stderr' = [stderr EXCEPT ![p] = Append(@, SpawnErrorText)]
    /\ ProcessExit(p, "crashed")
    /\ UNCHANGED <<now, log, args_o, return_code, child, stdout, gate, events, logPos>>

\* lines 50-57: the child exits; keep its code and output, take the end time
Wait(p) ==
    /\ pc[p] = "wait"
    /\ child[p] = "running"
    /\ \E rc \in ExitCodes, o \in Outputs :
         /\ return_code' = [return_code EXCEPT ![p] = rc]
         /\ sync_output' = [sync_output EXCEPT ![p] = SyncOutput(rc, o)]
    /\ child' = [child EXCEPT ![p] = "exited"]
    /\ end_time' = [end_time EXCEPT ![p] = now]
    /\ events' = [events EXCEPT ![p] = Append(@, "exit")]
    /\ pc' = [pc EXCEPT ![p] = "log"]
    /\ UNCHANGED <<now, lock, log, args_o, pid, unique_id, start_time,
                   stdout, stderr, exitKind, gate, logPos>>

\* lines 71, 83 with lines 13-22: log_message appends the entry
LogMessageOK(p) ==
    /\ pc[p] = "log"
    /\ log' = AppendLog(LogEntry(p))
    /\ logPos' = [logPos EXCEPT ![p] = Len(log')]
    /\ events' = [events EXCEPT ![p] = Append(@, "log")]
    /\ pc' = [pc EXCEPT ![p] = "report"]
    /\ UNCHANGED <<now, lock, args_o, pid, unique_id, start_time, end_time,
                   return_code, sync_output, child, stdout, stderr, exitKind, gate>>

\* variant: the failure to write the log is swallowed and main goes on
LogMessageFailSwallowed(p) ==
    /\ pc[p] = "log"
    /\ pc' = [pc EXCEPT ![p] = "report"]
    /\ UNCHANGED <<now, lock, log, args_o, pid, unique_id, start_time, end_time,
                   return_code, sync_output, child, stdout, stderr, exitKind,
                   gate, events, logPos>>

\* line 21: the log file cannot be opened or written; the exception is not caught
LogMessageFail(p) ==
    /\ pc[p] = "log"
    /\ stderr' = [stderr EXCEPT ![p] = Append(@, LogErrorText)]
    /\ ProcessExit(p, "crashed")
    /\ UNCHANGED <<now, log, args_o, return_code, child, stdout, gate, events, logPos>>

\* variant: the summary is printed whether or not --o was given
ReportSuccessAlways(p) ==
    /\ pc[p] = "report"
    /\ return_code[p] = 0
    /\ stdout' = [stdout EXCEPT ![p] = Append(@, SuccessText)]
    /\ events' = [events EXCEPT ![p] = Append(@, "print")]
    /\ ProcessExit(p, "returned")
    /\ UNCHANGED <<now, log, args_o, return_code, child, stderr, gate, logPos>>

\* lines 72-73, then main returns and the process exits
ReportSuccess(p) ==
    /\ pc[p] = "report"
    /\ return_code[p] = 0
    /\ IF args_o[p]
         THEN /\ stdout' = [stdout EXCEPT ![p] = Append(@, SuccessText)]
              /\ events' = [events EXCEPT ![p] = Append(@, "print")]
         ELSE UNCHANGED <<stdout, events>>
    /\ ProcessExit(p, "returned")
    /\ UNCHANGED <<now, log, args_o, return_code, child, stderr, gate, logPos>>

\* variant: a failed sync is run again
ReportErrorRetry(p) ==
    /\ pc[p] = "report"
    /\ return_code[p] # 0
    /\ Count(p, "spawn") < 2
    /\ pc' = [pc EXCEPT ![p] = "spawn"]
    /\ UNCHANGED <<now, lock, log, args_o, pid, unique_id, start_time, end_time,
                   return_code, sync_output, child, stdout, stderr, exitKind,
                   gate, events, logPos>>

\* line 84: the name sys is not imported (lines 3-10), so evaluating
\* file=sys.stderr raises NameError before anything is printed
ReportError(p) ==
    /\ pc[p] = "report"
    /\ return_code[p] # 0
    /\ stderr' = [stderr EXCEPT ![p] = Append(@, NameErrorText)]
    /\ ProcessExit(p, "crashed")
    /\ UNCHANGED <<now, log, args_o, return_code, child, stdout, gate, events, logPos>>

\* variant: a handler writes a log entry when the process is killed
KillLogging(p) ==
    /\ Live(p)
    /\ log' = Append(log, LogEntry(p))
    /\ ProcessExit(p, "killed")
    /\ UNCHANGED <<now, args_o, return_code, child, stdout, stderr, gate,
                   events, logPos>>

\* the process is killed from outside (SIGKILL); its child is not
Kill(p) ==
    /\ Live(p)
    /\ ProcessExit(p, "killed")
    /\ UNCHANGED <<now, log, args_o, return_code, child, stdout, stderr, gate,
                   events, logPos>>

\* a child whose parent was killed runs on and exits by itself
OrphanExit(p) ==
    /\ pc[p] = "done"
    /\ child[p] = "running"
    /\ child' = [child EXCEPT ![p] = "exited"]
    /\ UNCHANGED <<now, lock, log, pc, args_o, pid, unique_id, start_time,
                   end_time, return_code, sync_output, stdout, stderr, exitKind,
                   gate, events, logPos>>

Next ==
    \/ Tick
    \/ ClockStepBack
    \/ \E p \in Inv : Start(p)
    \/ \E p \in Inv : AcquireOK(p)
    \/ \E p \in Inv : AcquireHeld(p)
    \/ \E p \in Inv : AcquireOpenFail(p)
    \/ \E p \in Inv : SpawnOK(p)
    \/ \E p \in Inv : SpawnFail(p)
    \/ \E p \in Inv : Wait(p)
    \/ \E p \in Inv : LogMessageOK(p)
    \/ \E p \in Inv : LogMessageFail(p)
    \/ \E p \in Inv : ReportSuccess(p)
    \/ \E p \in Inv : ReportError(p)
    \/ \E p \in Inv : Kill(p)
    \/ \E p \in Inv : OrphanExit(p)

Spec == Init /\ [][Next]_vars

\* The scheduler runs every live process: a non-blocking flock call returns.
\* Nothing forces the child of a lock holder to exit.
FairSpec ==
    /\ Spec
    /\ \A p \in Inv : WF_vars(AcquireOK(p)) /\ WF_vars(AcquireHeld(p))

TypeOK ==
    /\ now \in Times
    /\ lock \in Inv \cup {0}
    /\ Len(log) <= NumInv

\* ------------------------------------------------------------- properties

\* the invocation is past the lock gate and still running the pipeline
PastGate(p) == pc[p] \in {"spawn", "wait", "log", "report"}

\* p leaves line 40-45 in this step by its own doing
GateStep(p) == pc[p] = "lock" /\ pc'[p] # "lock" /\ exitKind'[p] # "killed"

\* C1: at most one invocation at a time is past the lock gate
C1_MutualExclusion ==
    \A p, q \in Inv : (p # q) => ~(PastGate(p) /\ PastGate(q))

C1_Witness ==
    \E p, q \in Inv : PastGate(p) /\ gate[q] = "held"

\* C2: an invocation that finds the lock held prints the fixed message on
\* standard output, spawns nothing, appends nothing to the log and leaves
\* the holder and the entry the holder will write untouched
C2_RejectedFrame ==
    /\ [](\A p \in Inv : gate[p] = "held" =>
            /\ stdout[p] = <<"Error: Could not acquire lock">>
            /\ child[p] = "none"
            /\ Count(p, "spawn") = 0
            /\ logPos[p] = 0
            /\ pc[p] = "done")
    /\ [][\A p \in Inv : (GateStep(p) /\ lock \notin {0, p}) =>
            /\ stdout'[p] = Append(stdout[p], "Error: Could not acquire lock")
            /\ log' = log
            /\ child' = child
            /\ lock' = lock
            /\ LogEntry(lock)' = LogEntry(lock)
            /\ \A q \in Inv \ {p} :
                 /\ pc'[q] = pc[q]
                 /\ events'[q] = events[q]
                 /\ stdout'[q] = stdout[q]
                 /\ stderr'[q] = stderr[q]]_vars

C2_Witness ==
    \E p, q \in Inv : gate[p] = "held" /\ logPos[q] > 0

\* C3: an invocation at the gate leaves the gate whether or not the holder
\* ever ends, and when the lock is held it ends in that very step
C3_NonBlocking ==
    /\ \A p \in Inv : (pc[p] = "lock") ~> (pc[p] # "lock")
    /\ [][\A p \in Inv : (GateStep(p) /\ lock \notin {0, p}) => pc'[p] = "done"]_vars

C3_Witness ==
    \E p, q \in Inv : gate[p] = "held" /\ pc[p] = "done" /\ pc[q] = "wait"

\* C4: an invocation that passed the gate and was not killed has appended
\* exactly one log entry when it ends
C4_ExactlyOneEntry ==
    \A p \in Inv :
        (pc[p] = "done" /\ gate[p] = "passed" /\ exitKind[p] # "killed")
            => Count(p, "log") = 1

\* C5: status and message of the entry are decided by the exit code alone
C5_Classification ==
    \A p \in Inv : logPos[p] > 0 =>
        LET e == log[logPos[p]]
            rc == return_code[p]
        IN  /\ (rc = 0) => (e.status = "info" /\ e.message = "Sync successful.")
            /\ (rc = 1) => (e.status = "error" /\ e.message =
                              "Sync failed due to a general error, exit code 1")
            /\ (rc = 2) => (e.status = "error" /\ e.message =
                              "Sync failed due to a permission error, exit code 2")
            /\ (rc = 13) => (e.status = "error" /\ e.message =
                              "Sync failed with exit code 13")
            /\ (rc = -9) => (e.status = "error" /\ e.message =
                              "Sync failed with exit code -9")
            /\ (e.status = "error") <=> (rc # 0)
            /\ e.status \in {"info", "error"}

C5_Witness ==
    \E p, q \in Inv :
        /\ logPos[p] > 0 /\ logPos[q] > 0
        /\ return_code[p] = 2 /\ return_code[q] = 2
        /\ log[logPos[p]].extra_info.sync_output # log[logPos[q]].extra_info.sync_output

\* C6: after a non-zero exit the invocation has printed on standard error
\* the exit code, the combined output and the id of its log entry
C6_ErrorReported ==
    \A p \in Inv :
        (pc[p] = "done" /\ exitKind[p] # "killed" /\ logPos[p] > 0 /\ return_code[p] # 0)
            => \E i \in DOMAIN stderr[p] :
                 /\ Contains(stderr[p][i], "Exit code " \o ToString(return_code[p]))
                 /\ Contains(stderr[p][i], log[logPos[p]].extra_info.sync_output)
                 /\ Contains(stderr[p][i], "UNIQUE_ID " \o log[logPos[p]].unique_id)

\* C7: whatever an invocation prints about a failure (lock held, sync exited
\* non-zero) contains the invocation's id
C7_ReportsCarryId ==
    [][\A p \in Inv :
         /\ (GateStep(p) /\ gate'[p] = "held")
              => Contains(stdout'[p][Len(stdout'[p])], unique_id[p])
         /\ (pc[p] = "report" /\ return_code[p] # 0 /\ stderr'[p] # stderr[p])
              => Contains(stderr'[p][Len(stderr'[p])], unique_id[p])]_vars

\* C8: every step leaves the old log as a prefix of the new log
C8_AppendOnly == [][IsPrefix(log, log')]_vars

C8_Witness ==
    /\ Len(log) = 2
    /\ \E p \in Inv : pc[p] = "done" /\ logPos[p] = 1

\* C9: the lock is held only by a running invocation past the gate, every
\* such invocation holds it, and a free lock is granted to whoever asks
C9_LockFollowsProcess ==
    /\ [](/\ (lock # 0) => PastGate(lock)
          /\ \A p \in Inv : PastGate(p) => lock = p
          /\ \A p \in Inv : (pc[p] = "done") => lock # p)
    /\ [][\A p \in Inv : (GateStep(p) /\ lock = 0 /\ gate'[p] # "openfail")
            => (gate'[p] = "passed" /\ lock' = p)]_vars

C9_Witness ==
    \E p, q \in Inv :
        /\ gate[p] = "passed" /\ exitKind[p] \in {"killed", "crashed"}
        /\ PastGate(q) /\ lock = q

\* C10: a successful run with --o ends with the summary on standard output,
\* naming the log path, printed after its one info entry was appended; a
\* successful run without --o prints nothing
C10_SuccessSummary ==
    \A p \in Inv :
        /\ (pc[p] = "done" /\ exitKind[p] = "returned" /\ gate[p] = "passed") =>
             /\ return_code[p] = 0
             /\ args_o[p] =>
                  /\ Len(stdout[p]) = 1
                  /\ Contains(stdout[p][1], "Well done.")
                  /\ Contains(stdout[p][1], "/var/log/aws_s3_sync.log")
             /\ ~args_o[p] => stdout[p] = <<>>
             /\ stderr[p] = <<>>
        /\ (\E i \in DOMAIN stdout[p] : Contains(stdout[p][i], "Well done.")) =>
             /\ logPos[p] > 0
             /\ log[logPos[p]].status = "info"
             /\ Count(p, "log") = 1
             /\ events[p] = <<"lock", "spawn", "exit", "log", "print">>

C10_Witness ==
    \E p, q \in Inv :
        /\ pc[p] = "done" /\ args_o[p] /\ stdout[p] = <<SuccessText>>
        /\ pc[q] = "done" /\ ~args_o[q] /\ exitKind[q] = "returned"
        /\ gate[q] = "passed" /\ stdout[q] = <<>>

\* C11: equal ids mean equal timestamp and equal process id; invocations
\* alive at the same time never share an id
C11_IdsDistinct ==
    /\ \A p, q \in Inv :
         (p # q /\ Live(p) /\ Live(q)) =>
             /\ unique_id[p] # unique_id[q]
             /\ (start_time[p] # start_time[q] \/ pid[p] # pid[q])
    /\ \A p, q \in Inv :
         (Live(p) /\ Live(q) /\ unique_id[p] = unique_id[q]) =>
             (start_time[p] = start_time[q] /\ pid[p] = pid[q])
    /\ \A t1, t2 \in Times, i1, i2 \in PIDs :
         (UniqueId(t1, i1) = UniqueId(t2, i2)) => (t1 = t2 /\ i1 = i2)
    /\ \A p \in Inv :
         (Live(p) /\ logPos[p] > 0) => log[logPos[p]].unique_id = unique_id[p]

C11_Witness ==
    \E p, q \in Inv :
        /\ p # q /\ Live(p) /\ Live(q)
        /\ start_time[p] = start_time[q]
        /\ logPos[p] > 0

\* C12 as stated: a killed invocation holds no lock and has no log entry
C12_KilledNoEntry ==
    \A p \in Inv : (exitKind[p] = "killed") => (lock # p /\ logPos[p] = 0)

\* C12 amended: a kill frees the lock and does not touch the log; an
\* invocation killed before its entry was appended never has one
C12_KilledBeforeLog ==
    /\ [](/\ \A p \in Inv : (exitKind[p] = "killed") =>
                /\ lock # p
                /\ pc[p] = "done"
                /\ (pc[p] = "done" /\ Count(p, "log") = 0) => logPos[p] = 0
          /\ Len(log) = Cardinality({p \in Inv : logPos[p] > 0}))
    /\ [][\A p \in Inv : (exitKind[p] = "none" /\ exitKind'[p] = "killed") =>
            /\ lock' # p
            /\ log' = log
            /\ (pc[p] \in {"lock", "spawn", "wait", "log"}) => logPos'[p] = 0]_vars

C12_Witness ==
    \E p \in Inv :
        /\ exitKind[p] = "killed" /\ gate[p] = "passed"
        /\ child[p] = "exited" /\ logPos[p] = 0

\* C13: lock, spawn, exit, log, print happen in this order; the command is
\* spawned only under the lock and only once; the entry is appended only
\* after the command has exited
C13_PipelineOrder ==
    /\ [](\A p \in Inv :
            /\ IsPrefix(events[p], <<"lock", "spawn", "exit", "log", "print">>)
            /\ (child[p] # "none") => gate[p] = "passed"
            /\ (logPos[p] > 0) => child[p] = "exited")
    /\ [][\A p \in Inv :
            /\ (child'[p] = "running" /\ child[p] # "running") =>
                   (child[p] = "none" /\ lock = p)
            /\ (child[p] = "exited") => child'[p] = "exited"
            /\ (logPos'[p] # logPos[p]) =>
                   (child[p] = "exited" /\ lock = p /\ log' = Append(log, log'[Len(log')]))
            /\ (stdout'[p] # stdout[p] /\ gate'[p] = "passed") => logPos[p] > 0]_vars

C13_Witness ==
    \E p \in Inv : events[p] = <<"lock", "spawn", "exit", "log", "print">>

\* C14 as stated: the start time is the clock reading at the moment the
\* command is spawned, the end time the reading at the moment it exits
C14_StartAtSpawn ==
    [][\A p \in Inv :
         /\ (child[p] = "none" /\ child'[p] = "running") => start_time[p] = now
         /\ (pc[p] = "wait" /\ pc'[p] = "log") => end_time'[p] = now]_vars

\* C14 amended: the start time is read at startup, before the lock is
\* attempted, and is kept; the end time is read when the command exits; the
\* entry records these two and their difference
C14_StartBeforeGate ==
    [][\A p \in Inv :
         /\ (pc[p] = "init" /\ pc'[p] = "lock") =>
                (start_time'[p] = now /\ lock # p /\ gate'[p] = "none")
         /\ (Live(p) /\ pc'[p] # "done") => start_time'[p] = start_time[p]
         /\ (pc[p] = "wait" /\ pc'[p] = "log") => end_time'[p] = now
         /\ (logPos'[p] # logPos[p]) =>
                LET e == log'[logPos'[p]].extra_info
                IN  /\ e.duration = end_time[p] - start_time[p]
                    /\ e.start_time = Strftime(start_time[p])
                    /\ e.end_time = Strftime(end_time[p])]_vars

C14_Witness ==
    \E p \in Inv :
        /\ pc[p] = "report" /\ logPos[p] > 0
        /\ start_time[p] = 0 /\ end_time[p] = 1
        /\ log[logPos[p]].extra_info.duration = 1

\* C15: in every entry the end is not before the start and the duration is
\* their difference and not negative
C15_DurationNonNegative ==
    /\ \A i \in DOMAIN log :
         /\ log[i].extra_info.end_time >= log[i].extra_info.start_time
         /\ log[i].extra_info.duration >= 0
    /\ \A p \in Inv : (Live(p) /\ logPos[p] > 0) =>
         /\ end_time[p] >= start_time[p]
         /\ log[logPos[p]].extra_info.duration = end_time[p] - start_time[p]

\* the sync command of p exited non-zero and p has ended by itself
SyncFailed(p) ==
    /\ pc[p] = "done" /\ exitKind[p] = "crashed"
    /\ return_code[p] # 0 /\ Count(p, "exit") = 1

\* C16: lock contention ends with status 0 like a success; a failed sync
\* ends with one status whatever the exit code, the same status as the
\* other uncaught failures
C16_ExitStatus ==
    \A p \in Inv : (pc[p] = "done") =>
        /\ (gate[p] = "held") => ExitStatus(p) = 0
        /\ (gate[p] = "passed" /\ exitKind[p] = "returned") =>
               (return_code[p] = 0 /\ ExitStatus(p) = 0)
        /\ SyncFailed(p) => ExitStatus(p) # 0
        /\ \A q \in Inv :
               (SyncFailed(p) /\ pc[q] = "done" /\ exitKind[q] = "crashed")
                   => ExitStatus(p) = ExitStatus(q)

C16_Witness ==
    \E p, q \in Inv :
        /\ gate[p] = "held" /\ pc[p] = "done"
        /\ SyncFailed(q) /\ logPos[q] > 0

\* the log write of p failed and ended p
LogFailed(p) ==
    /\ pc[p] = "done" /\ exitKind[p] = "crashed"
    /\ events[p] = <<"lock", "spawn", "exit">>

C18_OneSyncRunning ==
    /\ Cardinality({p \in Inv : child[p] = "running"}) <= 1
    /\ \A p, q \in Inv : (child[p] = "running" /\ PastGate(q)) => p = q

\* C19: the lock-contention message is printed only when another live
\* process holds the lock
C19_RejectedOnlyWhenHeld ==
    [][\A p \in Inv :
         (GateStep(p) /\ stdout'[p] = Append(stdout[p], "Error: Could not acquire lock"))
             => lock \notin {0, p}]_vars
====
